---- MODULE Spec2Model ----
(***************************************************************************)
(* InsuranceLens: the upload page (Home, FileUpload, PolicyTabs), the API  *)
(* utilities (fetchApi and the api object) and the policy service they     *)
(* talk to (ingestion, vector index, highlighter, question router, answer  *)
(* composer).  The page and the API utilities are translated from the      *)
(* TypeScript sources; the service is not among the sources and is         *)
(* modelled from its specification.                                        *)
(***************************************************************************)
EXTENDS Integers, Sequences, FiniteSets, TLC

\* ---------------------------------------------------------------- bounds
MaxDocs == 2
MaxChunks == 6
BatchSize == 3
MaxSessions == 2
MaxTime == 2
MaxProgressEvents == 2

\* ------------------------------------------------------ program constants
MaxEmbedAttempts == 3
MaxHighlights == 5
TopK == 5
MaxLmAttempts == 2
MAX_FILE_SIZE == 50 * 1024 * 1024

NoDoc == 0
DocIds == 1..MaxDocs
Sessions == 1..MaxSessions
Times == 1..MaxTime

Min(a, b) == IF a < b THEN a ELSE b

\* ------------------------------------------------- JavaScript values
\* A JSON value as the page receives it: a tagged record.  v holds the text
\* of a string and the decimal digits of a number.
JsStr(s) == [t |-> "string", v |-> s]
JsNum(n) == [t |-> "number", v |-> ToString(n)]
JsNull == [t |-> "null", v |-> ""]
JsUndefined == [t |-> "undefined", v |-> ""]
JsAbsent == [t |-> "absent", v |-> ""]

\* The keys a highlight payload may carry: the seven the page reads and one
\* the page does not know.
KnownKeys == {"title", "text", "reason", "norm_comparison", "category", "page_number"}
PayloadKeys == KnownKeys \cup {"deviation_score"}

\* An object: f maps every payload key to its value, JsAbsent for a key the
\* object does not have.
JsObj(f) == [t |-> "object", v |-> "", f |-> f]

\* typeof x
TypeOf(x) == IF x.t = "null" THEN "object" ELSE x.t

\* x in a boolean context
Truthy(x) ==
    CASE x.t = "null" -> FALSE
      [] x.t = "undefined" -> FALSE
      [] x.t = "string" -> x.v # ""
      [] x.t = "number" -> x.v # "0"
      [] OTHER -> TRUE

\* String(x)
String(x) ==
    CASE x.t = "string" -> x.v
      [] x.t = "number" -> x.v
      [] x.t = "null" -> "null"
      [] x.t = "undefined" -> "undefined"
      [] OTHER -> "[object Object]"

\* typeof highlight === 'object' && highlight && key in highlight
HasKey(highlight, key) ==
    /\ TypeOf(highlight) = "object"
    /\ Truthy(highlight)
    /\ highlight.f[key].t # "absent"

\* ------------------------------------------------- Home (page component)
\* As ClauseId, without the index.
ClauseIdByTimeOnly(index, now) == "clause-" \o ToString(now)

\* clause_id: `clause-${index}-${Date.now()}`, index counted from 0
ClauseId(index, now) == "clause-" \o ToString(index) \o "-" \o ToString(now)

\* One element of result.highlights.map(...) in handleUploadComplete.
NormalizeHighlight(highlight, index, now) ==
    [clause_id |-> ClauseId(index, now),
     title |-> IF HasKey(highlight, "title")
               THEN String(highlight.f["title"]) ELSE "Unbenannte Klausel",
     text |-> IF HasKey(highlight, "text")
              THEN String(highlight.f["text"]) ELSE "",
     reason |-> IF HasKey(highlight, "reason")
                THEN String(highlight.f["reason"]) ELSE "",
     norm_comparison |-> IF HasKey(highlight, "norm_comparison")
                         THEN String(highlight.f["norm_comparison"]) ELSE "",
     category |-> IF HasKey(highlight, "category")
                  THEN String(highlight.f["category"]) ELSE "other",
     page_number |-> IF /\ HasKey(highlight, "page_number")
                        /\ TypeOf(highlight.f["page_number"]) = "number"
                     THEN highlight.f["page_number"] ELSE JsUndefined]

\* result.highlights.map((highlight, index) => ...)
MapHighlights(highlights, now) ==
    [i \in 1..Len(highlights) |-> NormalizeHighlight(highlights[i], i - 1, now)]

\* As PolicyOverviewOf, with total_chunks left at 0 the way total_pages is.
PolicyOverviewZeroChunks(result, now) ==
    [policy_id |-> result.policy_id,
     filename |-> result.filename,
     upload_date |-> now,
     total_pages |-> 0,
     total_chunks |-> 0,
     highlighted_clauses |-> MapHighlights(result.highlights, now)]

\* The PolicyOverview handleUploadComplete builds from an upload response.
PolicyOverviewOf(result, now) ==
    [policy_id |-> result.policy_id,
     filename |-> result.filename,
     upload_date |-> now,
     total_pages |-> 0,
     total_chunks |-> result.total_chunks,
     highlighted_clauses |-> MapHighlights(result.highlights, now)]

NoPolicy == [policy_id |-> NoDoc]

\* What Home renders: FileUpload while no policy is held, else the policy's
\* header with the start-over button and PolicyTabs.
HomeView(policy) == IF policy = NoPolicy THEN "FileUpload" ELSE "PolicyTabs"

\* ------------------------------------------------- PolicyTabs
\* What the Highlights tab shows under its banner: the placeholder
\* "Noch keine Highlights verfuegbar." for an empty list, else the clauses.
HighlightsTabView(policy) ==
    IF Len(policy.highlighted_clauses) = 0
    THEN "Noch keine Highlights verfuegbar."
    ELSE "clauses"

\* The quick-question buttons of the overview tab and a typed question.
Questions == {"Was sind meine Wartezeiten?", "Was bedeutet Selbstbeteiligung?"}

\* ------------------------------------------------- state
VARIABLES
    docs,           \* service: document id -> status and ingestion progress
    index,          \* service: the vector index, chunk records in insertion order
    nextDoc,        \* service: the next document id to hand out
    sessions,       \* page: one record per handleFile call that passed validation
    fu,             \* page: the state of the mounted FileUpload component
    uploadedPolicy, \* page: Home's uploadedPolicy (NoPolicy for null)
    ask,            \* one api.askQuestion call and the service's handling of it
    call,           \* one call of an api method, seen from the client alone
    consoleLog      \* page: the last line handleAskQuestion wrote to the console

serviceVars == <<docs, index, nextDoc>>
pageVars == <<sessions, fu, uploadedPolicy>>
vars == <<docs, index, nextDoc, sessions, fu, uploadedPolicy, ask, call, consoleLog>>

\* ------------------------------------------------- service: data model
\* The chunk counts the chunker may produce for an uploaded text: none, fewer
\* than one embedding batch, and several batches.
ChunkCounts == {0, 2, MaxChunks}

ChunkId(d, i) == "chunk-" \o ToString(d) \o "-" \o ToString(i)

\* Chunk {id, document_id, sequence_index, page_number}
Chunk(d, i) ==
    [id |-> ChunkId(d, i), document_id |-> d, sequence_index |-> i, page_number |-> i]

\* written counts the chunks in the index, released those a delete removed.
NoDocument ==
    [status |-> "absent", nChunks |-> 0, written |-> 0, attempts |-> 0,
     hlDone |-> FALSE, highlights |-> <<>>, released |-> 0]

\* The categories of the fixed domain taxonomy.
Categories == {"waiting_period", "exclusion", "deductible", "coverage_abroad", "other"}
CategoryOf(i) ==
    CASE i % 4 = 1 -> "waiting_period"
      [] i % 4 = 2 -> "exclusion"
      [] i % 4 = 3 -> "deductible"
      [] OTHER -> "coverage_abroad"

\* ------------------------------------------------- service: vector index
\* upsert(collection, items)
Upsert(idx, items) == idx \o items

\* As Collection, without the document filter.
CollectionUnfiltered(idx, d) == idx

\* The chunk collection of document d.
Collection(idx, d) == SelectSeq(idx, LAMBDA c : c.document_id = d)

\* query(collection, vector, k): the k best of the document's collection,
\* ties broken by insertion order.
Query(idx, d, k) ==
    LET coll == Collection(idx, d)
    IN  SubSeq(coll, 1, Min(k, Len(coll)))

\* Cascade delete, and the release of partially written chunks.
DropCollection(idx, d) == SelectSeq(idx, LAMBDA c : c.document_id # d)

ChunksOf(idx, d) == {idx[j] : j \in {k \in 1..Len(idx) : idx[k].document_id = d}}

\* ------------------------------------------------- service: ingestion
\* The next embedding batch of document d: at most BatchSize chunks, in
\* sequence order.
NextBatch(doc, d) ==
    [j \in 1..Min(BatchSize, doc.nChunks - doc.written) |-> Chunk(d, doc.written + j)]

\* An embedding call succeeded: its batch is upserted.
EmbedBatchOk(d) ==
    /\ docs[d].status = "pending"
    /\ docs[d].written < docs[d].nChunks
    /\ index' = Upsert(index, NextBatch(docs[d], d))
    /\ docs' = [docs EXCEPT ![d].written = @ + Len(NextBatch(docs[d], d)),
                            ![d].attempts = 0]
    /\ UNCHANGED <<nextDoc, pageVars, ask, call, consoleLog>>

\* What an embedding failure leaves of the document: retried until the attempt
\* budget is spent, then failed with its chunks released.
AfterEmbedFailure(doc) ==
    IF doc.attempts + 1 < MaxEmbedAttempts
    THEN [doc EXCEPT !.attempts = @ + 1]
    ELSE [doc EXCEPT !.attempts = @ + 1, !.status = "failed", !.written = 0]

\* As IndexAfterEmbedFailure, leaving the chunks written so far.
IndexKeptAfterEmbedFailure(idx, doc, d) == idx

IndexAfterEmbedFailure(idx, doc, d) ==
    IF doc.attempts + 1 < MaxEmbedAttempts THEN idx ELSE DropCollection(idx, d)

EmbedBatchFail(d) ==
    /\ docs[d].status = "pending"
    /\ docs[d].written < docs[d].nChunks
    /\ docs' = [docs EXCEPT ![d] = AfterEmbedFailure(docs[d])]
    /\ index' = IndexAfterEmbedFailure(index, docs[d], d)
    /\ UNCHANGED <<nextDoc, pageVars, ask, call, consoleLog>>

\* All chunks are embedded and stored: pending -> indexed.
MarkIndexed(d) ==
    /\ docs[d].status = "pending"
    /\ docs[d].written = docs[d].nChunks
    /\ docs' = [docs EXCEPT ![d].status = "indexed"]
    /\ UNCHANGED <<index, nextDoc, pageVars, ask, call, consoleLog>>

\* POST /policies/upload has taken in a file: the text is extracted and
\* chunked into n chunks and the document is created as pending; an unreadable
\* file fails it at once.
CreateDocument(n, readable) ==
    /\ docs' = [docs EXCEPT ![nextDoc] =
                    [NoDocument EXCEPT !.status = IF readable THEN "pending" ELSE "failed",
                                       !.nChunks = IF readable THEN n ELSE 0]]
    /\ nextDoc' = nextDoc + 1

\* An upload by a client of the API other than the page.
ApiUpload ==
    /\ nextDoc <= MaxDocs
    /\ \E n \in ChunkCounts, readable \in BOOLEAN : CreateDocument(n, readable)
    /\ UNCHANGED <<index, pageVars, ask, call, consoleLog>>

\* ------------------------------------------------- service: highlighter
\* Top N of the ranked candidates, N bounded by MaxHighlights.
SelectHighlights(candidates) ==
    SubSeq(candidates, 1, Min(Len(candidates), MaxHighlights))

\* Highlight generation, the follow-up task of indexing: c chunks deviate
\* enough to be candidates.
GenerateHighlights(d) ==
    /\ docs[d].status = "indexed"
    /\ ~docs[d].hlDone
    /\ \E c \in 0..docs[d].nChunks :
         docs' = [docs EXCEPT ![d].hlDone = TRUE,
                              ![d].highlights = SelectHighlights([i \in 1..c |-> i])]
    /\ UNCHANGED <<index, nextDoc, pageVars, ask, call, consoleLog>>

\* As DeletePolicy, dropping the collection of an indexed document only.
DeletePolicyIndexedOnly(d) ==
    /\ docs[d].status \in {"pending", "indexed", "failed"}
    /\ docs' = [docs EXCEPT ![d].status = "deleted", ![d].written = 0,
                            ![d].hlDone = FALSE, ![d].highlights = <<>>,
                            ![d].released = Len(Collection(index, d))]
    /\ index' = IF docs[d].status = "indexed" THEN DropCollection(index, d) ELSE index
    /\ UNCHANGED <<nextDoc, pageVars, ask, call, consoleLog>>

\* Explicit delete: the document is destroyed and its collection with it; an
\* ingestion still running is cancelled and the chunks it wrote are released.
DeletePolicy(d) ==
    /\ docs[d].status \in {"pending", "indexed", "failed"}
    /\ docs' = [docs EXCEPT ![d].status = "deleted", ![d].written = 0,
                            ![d].hlDone = FALSE, ![d].highlights = <<>>,
                            ![d].released = Len(Collection(index, d))]
    /\ index' = DropCollection(index, d)
    /\ UNCHANGED <<nextDoc, pageVars, ask, call, consoleLog>>

\* ------------------------------------------------- service: upload endpoint
\* The wire form of the highlight of chunk i: the fields of the page's
\* HighlightedClause and the service's own deviation_score.
HighlightPayload(d, i) ==
    JsObj([k \in PayloadKeys |->
        CASE k = "title" -> JsStr("Klausel " \o ToString(i))
          [] k = "text" -> JsStr(ChunkId(d, i))
          [] k = "reason" -> JsStr("weicht ab")
          [] k = "norm_comparison" -> JsStr("Norm")
          [] k = "category" -> JsStr(CategoryOf(i))
          [] k = "page_number" -> JsNum(i)
          [] OTHER -> JsNum(1)])

\* An HTTP response.  json says whether the body parses as JSON.
HttpResponse(status, statusText, json, body) ==
    [kind |-> "response", status |-> status, statusText |-> statusText,
     json |-> json, body |-> body]
NetworkError == [kind |-> "network_error"]
\* A body that is not JSON.
RawText(text) == [raw |-> text]
\* The parsed body of an error answer: detail and error are JSON values,
\* JsAbsent for a key the body does not have.
ErrorBody(detail) == [detail |-> JsStr(detail), error |-> JsAbsent]

\* The ingestion of the document has ended one way or the other.
IngestionEnded(doc) ==
    \/ doc.status = "indexed" /\ doc.hlDone
    \/ doc.status \in {"failed", "deleted"}

\* POST /policies/upload answers with PolicyUploadResponse {policy_id, filename,
\* total_chunks, highlights}: the chunk count and the highlights are part of
\* the answer, so it is sent when indexing and highlighting are done.
UploadResponse(doc, d) ==
    IF doc.status = "indexed"
    THEN HttpResponse(200, "OK", TRUE,
            [policy_id |-> d,
             filename |-> "police.pdf",
             total_chunks |-> doc.nChunks,
             highlights |-> [j \in 1..Len(doc.highlights) |->
                                HighlightPayload(d, doc.highlights[j])]])
    ELSE IF doc.status = "failed"
    THEN HttpResponse(500, "Internal Server Error", TRUE, ErrorBody("ingestion failed"))
    ELSE HttpResponse(404, "Not Found", TRUE, ErrorBody("policy deleted"))

\* ------------------------------------------------- fetchApi
\* As ResponseOk, with > for >= at the lower end.
ResponseOkAbove200(r) == r.status > 200 /\ r.status < 300

\* response.ok
ResponseOk(r) == r.status >= 200 /\ r.status < 300

\* a || b
OrElse(a, b) == IF Truthy(a) THEN a ELSE b

\* body[key]: undefined for a key the body does not have
Member(body, key) ==
    IF key \in DOMAIN body /\ body[key].t # "absent" THEN body[key] ELSE JsUndefined

HttpStatusText(status) == "HTTP " \o ToString(status)

\* The message of the ApiError thrown for a non-OK response: detail || error
\* || `HTTP ${status}` of the parsed body; the catch block's statusText ||
\* `HTTP ${status}` when response.json() throws, and also when the body
\* parses to null, where reading errorData.detail throws inside the try.
ErrorMessage(r) ==
    IF r.json /\ r.body # JsNull
    THEN String(OrElse(Member(r.body, "detail"),
                       OrElse(Member(r.body, "error"), JsStr(HttpStatusText(r.status)))))
    ELSE String(OrElse(JsStr(r.statusText), JsStr(HttpStatusText(r.status))))

Returned(value) == [kind |-> "return", value |-> value]
Thrown(name, status, message) ==
    [kind |-> "throw", name |-> name, status |-> status, message |-> message]

\* fetchApi(endpoint, options): what the call ends with, given what fetch got.
FetchApi(r) ==
    IF r.kind = "network_error"
    THEN Thrown("TypeError", 0, "Failed to fetch")
    ELSE IF ~ResponseOk(r)
    THEN Thrown("ApiError", r.status, ErrorMessage(r))
    ELSE IF r.json
    THEN Returned(r.body)
    ELSE Thrown("SyntaxError", 0, "Unexpected end of JSON input")

\* ------------------------------------------------- FileUpload
PdfMime == <<"a", "p", "p", "l", "i", "c", "a", "t", "i", "o", "n", "/", "p", "d", "f">>
PngMime == <<"i", "m", "a", "g", "e", "/", "p", "n", "g">>

\* s.includes(sub)
Includes(s, sub) ==
    \E i \in 0..(Len(s) - Len(sub)) : SubSeq(s, i + 1, i + Len(sub)) = sub

\* The files a user may select or drop.
Files == [type : {PdfMime, PngMime}, size : {1024, MAX_FILE_SIZE, MAX_FILE_SIZE + 1}]

\* The percentages the XHR progress events report.
ProgressValues == {50, 100}

NoError == [set |-> FALSE, message |-> ""]
ErrorOf(message) == [set |-> TRUE, message |-> message]

Progress(stage, progress, message) ==
    [stage |-> stage, progress |-> progress, message |-> message]
ReadyProgress == Progress("uploading", 0, "Bereit zum Upload...")

\* (The German texts are written without umlauts.)
\* The state of a freshly mounted FileUpload.
FreshUpload == [uploading |-> FALSE, progress |-> ReadyProgress, error |-> NoError]

\* loaded is the percentage the session's XHR has reported as sent; it is kept
\* while progress events can still come and is 0 otherwise.
IdleSession ==
    [pc |-> "idle", alive |-> FALSE, doc |-> NoDoc, result |-> NoPolicy, loaded |-> 0]

\* As ValidationError, with >= for > at the size limit.
ValidationErrorAtLimit(file) ==
    IF ~Includes(file.type, <<"p", "d", "f">>)
    THEN "Bitte waehlen Sie eine PDF-Datei aus."
    ELSE IF file.size >= MAX_FILE_SIZE
    THEN "Die Datei ist zu gross. Maximum: 50MB"
    ELSE ""

\* The validation at the head of handleFile: the message it sets, "" if the
\* file passes.
ValidationError(file) ==
    IF ~Includes(file.type, <<"p", "d", "f">>)
    THEN "Bitte waehlen Sie eine PDF-Datei aus."
    ELSE IF file.size > MAX_FILE_SIZE
    THEN "Die Datei ist zu gross. Maximum: 50MB"
    ELSE ""

\* handleFile(file) up to its first await: validation, then setError(null),
\* setUploading(true), setProgress(uploading, 0) and the XHR is sent.  s is the
\* session the call becomes when the file passes.
HandleFile(file, s) ==
    IF ValidationError(file) # ""
    THEN /\ fu' = [fu EXCEPT !.error = ErrorOf(ValidationError(file))]
         /\ UNCHANGED sessions
    ELSE /\ sessions[s].pc = "idle"
         /\ \A r \in Sessions : r < s => sessions[r].pc # "idle"
         /\ nextDoc <= MaxDocs
         /\ fu' = [uploading |-> TRUE,
                   progress |-> Progress("uploading", 0, "Upload laeuft..."),
                   error |-> NoError]
         /\ sessions' = [sessions EXCEPT ![s] = [pc |-> "uploading", alive |-> TRUE,
                                                 doc |-> NoDoc, result |-> NoPolicy,
                                                 loaded |-> 0]]

\* handleDrop: the drop zone is rendered whether or not an upload is running.
HandleDrop(file) ==
    /\ uploadedPolicy = NoPolicy
    /\ \E s \in Sessions : HandleFile(file, s)
    /\ UNCHANGED <<serviceVars, uploadedPolicy, ask, call, consoleLog>>

\* handleFileInput: the file input is rendered only while no upload is running.
HandleFileInput(file) ==
    /\ uploadedPolicy = NoPolicy
    /\ ~fu.uploading
    /\ \E s \in Sessions : HandleFile(file, s)
    /\ UNCHANGED <<serviceVars, uploadedPolicy, ask, call, consoleLog>>

\* A state setter of the FileUpload instance that session s runs in: it has
\* no effect once that instance is unmounted.
SetUpload(s, next) == fu' = IF sessions[s].alive THEN next ELSE fu

\* xhr.upload 'progress' with lengthComputable: onProgress(progress).  The
\* bytes an XHR reports as sent never go down.
XhrProgress(s, pct) ==
    /\ sessions[s].pc = "uploading"
    /\ pct >= sessions[s].loaded
    /\ SetUpload(s, [fu EXCEPT !.progress =
            Progress("uploading", pct, "Upload: " \o ToString(pct) \o "%")])
    /\ sessions' = [sessions EXCEPT ![s].loaded = pct]
    /\ UNCHANGED <<serviceVars, uploadedPolicy, ask, call, consoleLog>>

\* The service has received the request body of session s: see CreateDocument.
ReceiveUpload(s) ==
    /\ sessions[s].pc = "uploading"
    /\ nextDoc <= MaxDocs
    /\ \E n \in ChunkCounts, readable \in BOOLEAN : CreateDocument(n, readable)
    /\ sessions' = [sessions EXCEPT ![s].pc = "received", ![s].doc = nextDoc,
                                    ![s].loaded = 0]
    /\ UNCHANGED <<index, fu, uploadedPolicy, ask, call, consoleLog>>

\* As XhrStatusOk, with <= for < at the upper end.
XhrStatusOkUpTo300(r) == r.status >= 200 /\ r.status <= 300

\* xhr.status >= 200 && xhr.status < 300 in the load listener of uploadPolicy
XhrStatusOk(r) == r.status >= 200 /\ r.status < 300

\* As UploadFailed, without the finally block.
UploadFailedStillUploading(s, message) ==
    /\ SetUpload(s, [uploading |-> fu.uploading, progress |-> ReadyProgress,
                     error |-> ErrorOf(message)])
    /\ sessions' = [sessions EXCEPT ![s].pc = "done", ![s].loaded = 0]

\* The catch and finally blocks of handleFile.
UploadFailed(s, message) ==
    /\ SetUpload(s, [uploading |-> FALSE, progress |-> ReadyProgress,
                     error |-> ErrorOf(message)])
    /\ sessions' = [sessions EXCEPT ![s].pc = "done", ![s].loaded = 0]

\* The load listener of uploadPolicy: what the promise settles with for the
\* response r.
XhrLoadOutcome(r) ==
    IF XhrStatusOk(r)
    THEN IF r.json
         THEN Returned(r.body)
         ELSE Thrown("Error", 0, "Failed to parse response")
    ELSE Thrown("ApiError", r.status, r.statusText)

\* The error listener of uploadPolicy.
XhrErrorOutcome == Thrown("Error", 0, "Network error")

\* handleFile after the promise of uploadPolicy has settled with o: on to
\* setProgress(processing, 90), or to the catch block with the error's message.
UploadSettled(s, o) ==
    IF o.kind = "return"
    THEN /\ SetUpload(s, [fu EXCEPT !.progress =
                 Progress("processing", 90, "Verarbeitung laeuft...")])
         /\ sessions' = [sessions EXCEPT ![s].pc = "processing",
                                         ![s].result = o.value, ![s].loaded = 0]
    ELSE UploadFailed(s, o.message)

\* xhr 'load' with the service's response.
XhrLoad(s) ==
    /\ sessions[s].pc = "received"
    /\ IngestionEnded(docs[sessions[s].doc])
    /\ UploadSettled(s, XhrLoadOutcome(UploadResponse(docs[sessions[s].doc],
                                                      sessions[s].doc)))
    /\ UNCHANGED <<serviceVars, uploadedPolicy, ask, call, consoleLog>>

\* xhr 'error': reject(new Error('Network error')).
XhrError(s) ==
    /\ sessions[s].pc \in {"uploading", "received"}
    /\ UploadSettled(s, XhrErrorOutcome)
    /\ UNCHANGED <<serviceVars, uploadedPolicy, ask, call, consoleLog>>

\* The two-second timer of handleFile fires: setProgress(complete, 100),
\* onUploadComplete(result) = Home's handleUploadComplete, setUploading(false).
\* Home then renders PolicyTabs in place of FileUpload.
UploadDone(s) ==
    /\ sessions[s].pc = "processing"
    /\ \E now \in Times :
         uploadedPolicy' = PolicyOverviewOf(sessions[s].result, now)
    /\ SetUpload(s, [fu EXCEPT !.uploading = FALSE,
                               !.progress = Progress("complete", 100, "Upload erfolgreich!")])
    /\ sessions' = [r \in Sessions |->
                        IF r = s THEN [sessions[r] EXCEPT !.pc = "done", !.alive = FALSE]
                        ELSE [sessions[r] EXCEPT !.alive = FALSE]]
    /\ UNCHANGED <<serviceVars, ask, call, consoleLog>>

\* ------------------------------------------------- Home: the other handlers
NoLog == [question |-> "", policy_id |-> NoDoc]

\* handleAskQuestion, reached from the buttons of PolicyTabs: it returns when
\* no policy is held, and else writes the question and the policy id to the
\* console; it sends no request and sets no state.
HandleAskQuestion(question) ==
    /\ uploadedPolicy # NoPolicy
    /\ question \in Questions
    /\ consoleLog' = [question |-> question, policy_id |-> uploadedPolicy.policy_id]
    /\ UNCHANGED <<serviceVars, pageVars, ask, call>>

\* handleStartOver: back to a fresh FileUpload.
HandleStartOver ==
    /\ uploadedPolicy # NoPolicy
    /\ uploadedPolicy' = NoPolicy
    /\ fu' = FreshUpload
    /\ UNCHANGED <<serviceVars, sessions, ask, call, consoleLog>>

\* ------------------------------------------------- question answering
QuestionTypes == {"policy_specific", "general_insurance"}
LowConfidence == 0
NormalConfidence == 80

IdleAsk ==
    [pc |-> "idle", req |-> [policy_id |-> NoDoc, question |-> ""],
     qtype |-> "none", retrieved |-> <<>>, fellBack |-> FALSE, lmFailures |-> 0,
     web |-> {}, resp |-> NetworkError, outcome |-> Thrown("none", 0, "")]

\* The requests api.askQuestion may be called with; policy_id NoDoc stands for
\* a request without a document id.
AskRequests == [policy_id : {NoDoc} \cup DocIds, question : Questions]

\* api.askQuestion(request): fetchApi('/questions/ask', POST).  The request
\* reaches the service, or fetch fails and fetchApi throws.
AskQuestion(req) ==
    /\ ask.pc \in {"idle", "done"}
    /\ \E delivered \in BOOLEAN :
         ask' = IF delivered
                THEN [IdleAsk EXCEPT !.pc = "routing", !.req = req]
                ELSE [IdleAsk EXCEPT !.pc = "done", !.req = req,
                                     !.outcome = FetchApi(NetworkError)]
    /\ UNCHANGED <<serviceVars, pageVars, call, consoleLog>>

\* As Classify, without the structural rule.
ClassifyByModelOnly(req, lmClass) == lmClass

\* Question Router: without a document id the type is forced to
\* general_insurance, else it is what the language model's classification says.
Classify(req, lmClass) ==
    IF req.policy_id = NoDoc THEN "general_insurance" ELSE lmClass

Route ==
    /\ ask.pc = "routing"
    /\ \E lmClass \in QuestionTypes :
         LET qtype == Classify(ask.req, lmClass)
         IN  ask' = [ask EXCEPT !.qtype = qtype,
                                !.pc = IF qtype = "policy_specific"
                                       THEN "retrieving" ELSE "web_search"]
    /\ UNCHANGED <<serviceVars, pageVars, call, consoleLog>>

\* Policy path, retrieval: the top k of the document's collection, of which
\* the r most similar are above the relevance floor.
Relevant(idx, d, r) == SubSeq(Query(idx, d, TopK), 1, r)

\* As AfterRetrieval, answering "nothing found" as an error.
AfterRetrievalNoFallback(a, chunks) ==
    IF Len(chunks) = 0
    THEN [a EXCEPT !.pc = "responded",
                   !.resp = HttpResponse(404, "Not Found", TRUE,
                                         ErrorBody("no relevant chunks"))]
    ELSE [a EXCEPT !.retrieved = chunks, !.pc = "composing"]

\* Where the policy path goes after retrieval: on to the composer, or to
\* general handling when nothing relevant was found.
AfterRetrieval(a, chunks) ==
    IF Len(chunks) = 0
    THEN [a EXCEPT !.fellBack = TRUE, !.qtype = "general_insurance",
                   !.pc = "web_search"]
    ELSE [a EXCEPT !.retrieved = chunks, !.pc = "composing"]

Retrieve ==
    /\ ask.pc = "retrieving"
    /\ \E r \in 0..Len(Query(index, ask.req.policy_id, TopK)) :
         ask' = AfterRetrieval(ask, Relevant(index, ask.req.policy_id, r))
    /\ UNCHANGED <<serviceVars, pageVars, call, consoleLog>>

\* IndexUnavailable: the vector store cannot be reached; fatal for the request.
RetrieveUnavailable ==
    /\ ask.pc = "retrieving"
    /\ ask' = [ask EXCEPT !.pc = "responded",
                          !.resp = HttpResponse(503, "Service Unavailable", TRUE,
                                                ErrorBody("vector index unavailable"))]
    /\ UNCHANGED <<serviceVars, pageVars, call, consoleLog>>

\* General path: the web-search collaborator returns its snippets.
WebSearch ==
    /\ ask.pc = "web_search"
    /\ ask' = [ask EXCEPT !.web = {"https://www.krankenkassen.de"}, !.pc = "composing"]
    /\ UNCHANGED <<serviceVars, pageVars, call, consoleLog>>

\* As Citation, naming the chunk by its sequence index alone.
CitationBySequenceIndex(chunk) ==
    [chunk_id |-> ChunkId(NoDoc, chunk.sequence_index), page_number |-> chunk.page_number,
     text_snippet |-> chunk.id, relevance_score |-> NormalConfidence]

\* Citation {chunk_id, page_number, text_snippet, relevance_score}
Citation(chunk) ==
    [chunk_id |-> chunk.id, page_number |-> chunk.page_number,
     text_snippet |-> chunk.id, relevance_score |-> NormalConfidence]

\* The citations of an answer composed from the retrieved chunks.
Citations(chunks) == [j \in 1..Len(chunks) |-> Citation(chunks[j])]

\* The AnswerResponse of a completed composition.
Answer(a) ==
    [answer |-> "answer",
     question_type |-> a.qtype,
     citations |-> Citations(a.retrieved),
     web_sources |-> a.web,
     confidence |-> NormalConfidence]

\* The AnswerResponse when the language model failed on the call and on its
\* one retry: declared unable to answer, with low confidence.
DegradedAnswer(a) ==
    [answer |-> "unable to answer confidently",
     question_type |-> a.qtype,
     citations |-> <<>>,
     web_sources |-> {},
     confidence |-> LowConfidence]

ComposeOk ==
    /\ ask.pc = "composing"
    /\ ask' = [ask EXCEPT !.pc = "responded",
                          !.resp = HttpResponse(200, "OK", TRUE, Answer(ask))]
    /\ UNCHANGED <<serviceVars, pageVars, call, consoleLog>>

\* What a failed completion call leaves: one retry, then the degraded answer.
AfterCompletionFailure(a) ==
    IF a.lmFailures + 1 < MaxLmAttempts
    THEN [a EXCEPT !.lmFailures = @ + 1]
    ELSE [a EXCEPT !.lmFailures = @ + 1, !.pc = "responded",
                   !.resp = HttpResponse(200, "OK", TRUE, DegradedAnswer(a))]

ComposeFail ==
    /\ ask.pc = "composing"
    /\ ask' = AfterCompletionFailure(ask)
    /\ UNCHANGED <<serviceVars, pageVars, call, consoleLog>>

\* The response arrives (or the connection breaks) and fetchApi ends.
AskReturn ==
    /\ ask.pc = "responded"
    /\ \E r \in {ask.resp, NetworkError} :
         ask' = [ask EXCEPT !.pc = "done", !.outcome = FetchApi(r)]
    /\ UNCHANGED <<serviceVars, pageVars, call, consoleLog>>

\* ------------------------------------------------- api: one call
\* The methods of api built on fetchApi.
FetchMethods ==
    {"healthCheck", "getPolicyOverview", "listPolicies", "deletePolicy",
     "askQuestion", "getQuestionHistory"}

\* requests counts the HTTP requests the call has issued, settlements the
\* calls of resolve and reject, computable and otherProgress the progress
\* events with and without lengthComputable, progressCalls the calls of
\* onProgress; got is what the request ended with; pc is the state of the
\* promise the method returned and xhr that of uploadPolicy's XMLHttpRequest.
IdleCall ==
    [method |-> "none", pc |-> "idle", xhr |-> "none", requests |-> 0, settlements |-> 0,
     onProgress |-> FALSE, computable |-> 0, otherProgress |-> 0, progressCalls |-> 0,
     got |-> NetworkError, outcome |-> Thrown("none", 0, "")]

\* The answers a request may get: status and status text (empty over HTTP/2),
\* with a JSON body or one that is not JSON; 204 comes with an empty body.
StatusLines ==
    {<<200, "OK">>, <<299, "">>, <<300, "Multiple Choices">>, <<404, "Not Found">>,
     <<404, "">>, <<503, "Service Unavailable">>}

JsonBodies ==
    {JsNull}
    \cup {[detail |-> d, error |-> e] :
            d \in {JsAbsent, JsNull, JsStr(""), JsStr("Policy not found")},
            e \in {JsAbsent, JsStr("bad request")}}

CallResponses ==
    {HttpResponse(l[1], l[2], TRUE, b) : l \in StatusLines, b \in JsonBodies}
    \cup {HttpResponse(l[1], l[2], FALSE, RawText("<html>")) : l \in StatusLines}
    \cup {HttpResponse(204, "No Content", FALSE, RawText(""))}

\* api.<method>(...) of a method built on fetchApi: fetchApi calls fetch, once.
CallFetchApi(method) ==
    /\ call.pc \in {"idle", "settled"} \/ call.xhr = "done"
    /\ call' = [IdleCall EXCEPT !.method = method, !.pc = "pending", !.requests = 1]
    /\ UNCHANGED <<serviceVars, pageVars, ask, consoleLog>>

\* What the method makes of fetchApi's outcome: deletePolicy awaits it and
\* returns nothing, the others return it.
MethodOutcome(method, o) ==
    IF method = "deletePolicy" /\ o.kind = "return" THEN Returned(JsUndefined) ELSE o

\* As FetchSettles, sending the request again (up to three times in all) when
\* fetch failed.
FetchSettlesRetrying(r) ==
    /\ call.pc = "pending"
    /\ call.method \in FetchMethods
    /\ call' = IF r.kind = "network_error" /\ call.requests < 3
               THEN [call EXCEPT !.requests = @ + 1]
               ELSE [call EXCEPT !.pc = "settled", !.settlements = @ + 1, !.got = r,
                                 !.outcome = MethodOutcome(call.method, FetchApi(r))]
    /\ UNCHANGED <<serviceVars, pageVars, ask, consoleLog>>

\* fetch has settled with r and fetchApi, and with it the method, ends.
FetchSettles(r) ==
    /\ call.pc = "pending"
    /\ call.method \in FetchMethods
    /\ call' = [call EXCEPT !.pc = "settled", !.settlements = @ + 1, !.got = r,
                            !.outcome = MethodOutcome(call.method, FetchApi(r))]
    /\ UNCHANGED <<serviceVars, pageVars, ask, consoleLog>>

\* api.uploadPolicy(file, onProgress?): one XMLHttpRequest is opened and sent.
CallUploadPolicy(onProgress) ==
    /\ call.pc \in {"idle", "settled"} \/ call.xhr = "done"
    /\ call' = [IdleCall EXCEPT !.method = "uploadPolicy", !.pc = "pending",
                                !.xhr = "sent", !.requests = 1,
                                !.onProgress = onProgress]
    /\ UNCHANGED <<serviceVars, pageVars, ask, consoleLog>>

\* xhr.upload 'progress': onProgress is called if the event has
\* lengthComputable and a callback was given.
XhrProgressEvent(lengthComputable) ==
    /\ call.xhr = "sent"
    /\ call.method = "uploadPolicy"
    /\ call.computable + call.otherProgress < MaxProgressEvents
    /\ call' = [call EXCEPT
                    !.computable = IF lengthComputable THEN @ + 1 ELSE @,
                    !.otherProgress = IF lengthComputable THEN @ ELSE @ + 1,
                    !.progressCalls = IF lengthComputable /\ call.onProgress
                                      THEN @ + 1 ELSE @]
    /\ UNCHANGED <<serviceVars, pageVars, ask, consoleLog>>

\* xhr 'load' with response r, or xhr 'error': the promise settles.
XhrLoadEvent(r) ==
    /\ call.xhr = "sent"
    /\ call.method = "uploadPolicy"
    /\ call' = [call EXCEPT !.pc = "settled", !.xhr = "done", !.settlements = @ + 1,
                            !.got = r, !.outcome = XhrLoadOutcome(r)]
    /\ UNCHANGED <<serviceVars, pageVars, ask, consoleLog>>

XhrErrorEvent ==
    /\ call.xhr = "sent"
    /\ call.method = "uploadPolicy"
    /\ call' = [call EXCEPT !.pc = "settled", !.xhr = "done", !.settlements = @ + 1,
                            !.got = NetworkError, !.outcome = XhrErrorOutcome]
    /\ UNCHANGED <<serviceVars, pageVars, ask, consoleLog>>

\* xhr 'abort': the user agent has cancelled the request.  uploadPolicy has
\* no listener for it (nor for 'timeout', which cannot fire as xhr.timeout is
\* never set): the XHR has ended and neither resolve nor reject is called.
XhrAbortEvent ==
    /\ call.xhr = "sent"
    /\ call.method = "uploadPolicy"
    /\ call' = [call EXCEPT !.xhr = "done"]
    /\ UNCHANGED <<serviceVars, pageVars, ask, consoleLog>>

NextCall ==
    \/ \E method \in FetchMethods : CallFetchApi(method)
    \/ \E r \in CallResponses \cup {NetworkError} : FetchSettles(r)
    \/ \E onProgress \in BOOLEAN : CallUploadPolicy(onProgress)
    \/ \E lengthComputable \in BOOLEAN : XhrProgressEvent(lengthComputable)
    \/ \E r \in CallResponses : XhrLoadEvent(r)
    \/ XhrErrorEvent
    \/ XhrAbortEvent

\* ------------------------------------------------- specification
Init ==
    /\ docs = [d \in DocIds |-> NoDocument]
    /\ index = <<>>
    /\ nextDoc = 1
    /\ sessions = [s \in Sessions |-> IdleSession]
    /\ fu = FreshUpload
    /\ uploadedPolicy = NoPolicy
    /\ ask = IdleAsk
    /\ call = IdleCall
    /\ consoleLog = NoLog

\* The page and the service behind it.
Next ==
    \/ \E file \in Files : HandleDrop(file)
    \/ \E file \in Files : HandleFileInput(file)
    \/ \E s \in Sessions, pct \in ProgressValues : XhrProgress(s, pct)
    \/ \E s \in Sessions : ReceiveUpload(s)
    \/ \E s \in Sessions : XhrLoad(s)
    \/ \E s \in Sessions : XhrError(s)
    \/ \E s \in Sessions : UploadDone(s)
    \/ \E question \in Questions : HandleAskQuestion(question)
    \/ HandleStartOver
    \/ \E d \in DocIds : EmbedBatchOk(d)
    \/ \E d \in DocIds : EmbedBatchFail(d)
    \/ \E d \in DocIds : MarkIndexed(d)
    \/ \E d \in DocIds : GenerateHighlights(d)

Spec == Init /\ [][Next]_vars

\* The service under the clients of its API: uploads, deletes and questions.
NextApi ==
    \/ ApiUpload
    \/ \E d \in DocIds : EmbedBatchOk(d)
    \/ \E d \in DocIds : EmbedBatchFail(d)
    \/ \E d \in DocIds : MarkIndexed(d)
    \/ \E d \in DocIds : GenerateHighlights(d)
    \/ \E d \in DocIds : DeletePolicy(d)
    \/ \E req \in AskRequests : AskQuestion(req)
    \/ Route
    \/ Retrieve
    \/ RetrieveUnavailable
    \/ WebSearch
    \/ ComposeOk
    \/ ComposeFail
    \/ AskReturn

ApiSpec == Init /\ [][NextApi]_vars

\* ------------------------------------------------- the page alone
\* The page with the responses its upload request may get, whatever is behind
\* the endpoint: a PolicyUploadResponse, a 2xx answer that is not JSON, HTTP
\* errors with and without a status text.
UploadBody(d, n) ==
    [policy_id |-> d, filename |-> "police.pdf", total_chunks |-> MaxChunks,
     highlights |-> [j \in 1..n |-> HighlightPayload(d, j)]]

WireResponses ==
    {HttpResponse(200, "OK", TRUE, UploadBody(d, n)) : d \in DocIds, n \in {0, 2}}
    \cup {HttpResponse(200, "OK", FALSE, RawText("<html>")),
          HttpResponse(500, "Internal Server Error", TRUE, ErrorBody("ingestion failed")),
          HttpResponse(413, "", FALSE, RawText(""))}

\* xhr 'load' with any response.
XhrLoadAny(s) ==
    /\ sessions[s].pc = "uploading"
    /\ \E r \in WireResponses : UploadSettled(s, XhrLoadOutcome(r))
    /\ UNCHANGED <<serviceVars, uploadedPolicy, ask, call, consoleLog>>

CallSpec == Init /\ [][NextCall]_vars

NextPage ==
    \/ \E file \in Files : HandleDrop(file)
    \/ \E file \in Files : HandleFileInput(file)
    \/ \E s \in Sessions, pct \in ProgressValues : XhrProgress(s, pct)
    \/ \E s \in Sessions : XhrLoadAny(s)
    \/ \E s \in Sessions : XhrError(s)
    \/ \E s \in Sessions : UploadDone(s)
    \/ \E question \in Questions : HandleAskQuestion(question)
    \/ HandleStartOver

PageSpec == Init /\ [][NextPage]_vars

\* ------------------------------------------------- the upload boundary
\* handleUploadComplete on any response body the wire can carry.  The elements
\* of highlights: non-objects, an empty object, a complete object, objects with
\* values of other types, with a category outside the taxonomy, and with a key
\* the page does not know.
MaxRawLen == 2

RawObject(title, category, page, extra) ==
    JsObj([k \in PayloadKeys |->
        CASE k = "title" -> title
          [] k = "category" -> category
          [] k = "page_number" -> page
          [] k = "deviation_score" -> extra
          [] OTHER -> JsAbsent])

RawHighlights ==
    {JsNull, JsStr("Klausel"), JsNum(7),
     RawObject(JsAbsent, JsAbsent, JsAbsent, JsAbsent),
     RawObject(JsStr("Wartezeit"), JsStr("waiting_period"), JsNum(4), JsAbsent),
     RawObject(JsStr("Wartezeit"), JsStr("waiting_period"), JsNum(4), JsNum(1)),
     RawObject(JsNum(3), JsStr("banana"), JsStr("4"), JsAbsent),
     RawObject(JsNull, JsNull, JsNull, JsStr("x"))}

RawSeqs == UNION {[1..n -> RawHighlights] : n \in 0..MaxRawLen}

RawResults ==
    {[policy_id |-> 1, filename |-> "police.pdf", total_chunks |-> n, highlights |-> h] :
        n \in {0, MaxChunks}, h \in RawSeqs}

\* The page at the moment the upload promise has resolved with some body.
InitNorm ==
    /\ docs = [d \in DocIds |-> NoDocument]
    /\ index = <<>>
    /\ nextDoc = 1
    /\ \E result \in RawResults :
         sessions = [s \in Sessions |->
                        IF s = 1
                        THEN [pc |-> "processing", alive |-> TRUE, doc |-> NoDoc,
                              result |-> result, loaded |-> 0]
                        ELSE IdleSession]
    /\ fu = [uploading |-> TRUE,
             progress |-> Progress("processing", 90, "Verarbeitung laeuft..."),
             error |-> NoError]
    /\ uploadedPolicy = NoPolicy
    /\ ask = IdleAsk
    /\ call = IdleCall
    /\ consoleLog = NoLog

NextNorm ==
    \/ \E s \in Sessions : UploadDone(s)
    \/ \E question \in Questions : HandleAskQuestion(question)
    \/ HandleStartOver

NormSpec == InitNorm /\ [][NextNorm]_vars

\* ------------------------------------------------- claims
\* The AnswerResponse the service has produced for the current ask, if any.
ServiceAnswered == ask.pc = "responded" /\ ResponseOk(ask.resp)
\* The ask call has returned a value to its caller.
AskReturned == ask.pc = "done" /\ ask.outcome.kind = "return"
\* The ask call has ended by throwing.
AskThrew == ask.pc = "done" /\ ask.outcome.kind = "throw"

\* C1: a question without a document id is always classified general_insurance:
\* whatever the question text, its type is never policy_specific, neither while
\* the service handles it nor in the AnswerResponse produced and returned.
C1_NoDocumentIsGeneral ==
    ask.req.policy_id = NoDoc =>
        /\ ask.qtype # "policy_specific"
        /\ ask.pc \notin {"retrieving"}
        /\ ask.pc \in {"web_search", "composing"} => ask.qtype = "general_insurance"
        /\ ServiceAnswered => ask.resp.body.question_type = "general_insurance"
        /\ AskReturned => ask.outcome.value.question_type = "general_insurance"

C1_Witness ==
    /\ AskReturned
    /\ ask.req.policy_id = NoDoc
    /\ ask.outcome.value.question_type = "general_insurance"

\* C2: the highlight set of a policy has at most MaxHighlights (5) entries and
\* at most as many as the document has chunks: in the service, in the upload
\* response a session holds, and in the highlighted_clauses the page shows.
C2_HighlightCountBounded ==
    /\ \A d \in DocIds :
         /\ Len(docs[d].highlights) <= MaxHighlights
         /\ Len(docs[d].highlights) <= docs[d].nChunks
    /\ \A s \in Sessions :
         sessions[s].pc = "processing" =>
            /\ Len(sessions[s].result.highlights) <= MaxHighlights
            /\ Len(sessions[s].result.highlights) <= sessions[s].result.total_chunks
    /\ uploadedPolicy # NoPolicy =>
         /\ Len(uploadedPolicy.highlighted_clauses) <= MaxHighlights
         /\ Len(uploadedPolicy.highlighted_clauses) <= uploadedPolicy.total_chunks

C2_Witness ==
    /\ uploadedPolicy # NoPolicy
    /\ Len(uploadedPolicy.highlighted_clauses) = MaxHighlights
    /\ uploadedPolicy.total_chunks > MaxHighlights

\* C3: tenancy isolation: whatever uploads and deletes have made of the index,
\* a query of document d's collection returns only chunks whose document_id is
\* d, and so do the chunks retrieved for a question about d.
C3_TenancyIsolation ==
    /\ \A d \in DocIds, k \in 0..TopK :
         \A j \in 1..Len(Query(index, d, k)) : Query(index, d, k)[j].document_id = d
    /\ \A j \in 1..Len(ask.retrieved) :
         ask.retrieved[j].document_id = ask.req.policy_id

C3_Witness ==
    /\ Len(ask.retrieved) > 0
    /\ Len(index) > 0
    /\ index[1].document_id # ask.req.policy_id

\* C4: ingestion is all-or-nothing: a document whose embedding failed on all
\* MaxEmbedAttempts (3) attempts is failed (until it is deleted), and no chunk
\* of a failed document is in the vector index.
C4_FailedHasNoChunks ==
    \A d \in DocIds :
        /\ docs[d].attempts <= MaxEmbedAttempts
        /\ docs[d].attempts = MaxEmbedAttempts => docs[d].status \in {"failed", "deleted"}
        /\ docs[d].status = "failed" => ChunksOf(index, d) = {} /\ docs[d].written = 0

C4_Witness ==
    \E d \in DocIds :
        /\ docs[d].status = "failed"
        /\ docs[d].attempts = MaxEmbedAttempts
        /\ docs[d].nChunks > BatchSize

\* C5: graceful fallback: a policy_specific question for which retrieval finds
\* nothing above the relevance floor goes on as a general_insurance question
\* (web search, composition) and is answered with an AnswerResponse; the only
\* error the service answers a question with is the unavailable index, and the
\* policy path composes only from a non-empty retrieval.
C5_FallbackToGeneral ==
    /\ ask.fellBack =>
        /\ ask.req.policy_id # NoDoc
        /\ ask.qtype = "general_insurance"
        /\ Len(ask.retrieved) = 0
        /\ ask.pc \in {"web_search", "composing", "responded", "done"}
        /\ ask.pc = "web_search" => ENABLED WebSearch
        /\ ask.pc = "composing" => ask.web # {} /\ ENABLED ComposeOk
        /\ ask.pc = "responded" =>
              /\ ResponseOk(ask.resp)
              /\ ask.resp.body.question_type = "general_insurance"
              /\ ask.resp.body.citations = <<>>
        /\ AskReturned => ask.outcome.value.question_type = "general_insurance"
        /\ AskThrew => ask.outcome.name = "TypeError"
    /\ ask.pc = "composing" /\ ask.qtype = "policy_specific" => Len(ask.retrieved) > 0
    /\ ask.pc = "responded" /\ ~ResponseOk(ask.resp) => ask.resp.status = 503

C5_Witness ==
    /\ ask.fellBack
    /\ AskReturned
    /\ ask.outcome.value.web_sources # {}

\* C6 as claimed: every ask call returns an AnswerResponse.
C6_AskAlwaysReturns == ask.pc = "done" => ask.outcome.kind = "return"

IsDegraded(answer) ==
    /\ answer.confidence = LowConfidence
    /\ answer.answer = "unable to answer confidently"

\* C6, amended: an ask call throws only when the transport fails (fetch
\* rejects) or the service answers 503 for an unavailable index; a completion
\* that failed on the call and on its one retry is answered with status 200 and
\* returned as a degraded answer with low confidence, and only such an answer
\* has low confidence.
C6_AskTotalUnlessUnavailable ==
    /\ AskThrew =>
          \/ ask.outcome.name = "TypeError"
          \/ ask.outcome.name = "ApiError" /\ ask.outcome.status = 503
                /\ ask.lmFailures = 0
    /\ ask.pc = "responded" /\ ask.lmFailures = MaxLmAttempts =>
          ResponseOk(ask.resp) /\ IsDegraded(ask.resp.body)
    /\ ServiceAnswered /\ ask.lmFailures < MaxLmAttempts =>
          ask.resp.body.confidence > LowConfidence
    /\ AskReturned =>
          (IsDegraded(ask.outcome.value) <=> ask.lmFailures = MaxLmAttempts)
    /\ ask.lmFailures <= MaxLmAttempts

C6_Witness ==
    /\ AskReturned
    /\ ask.lmFailures = MaxLmAttempts
    /\ IsDegraded(ask.outcome.value)

C8_EmptySetHasOwnSignal ==
    (/\ uploadedPolicy # NoPolicy
     /\ docs[uploadedPolicy.policy_id].hlDone
     /\ Len(docs[uploadedPolicy.policy_id].highlights) = 0)
        => HighlightsTabView(uploadedPolicy) # "Noch keine Highlights verfuegbar."

FixedFields ==
    {"clause_id", "title", "text", "reason", "norm_comparison", "category", "page_number"}

\* C9 as claimed: every highlight the page holds has exactly the fixed fields
\* and a category of the enumerated category set.
C9_HighlightsNormalised ==
    uploadedPolicy # NoPolicy =>
        \A j \in 1..Len(uploadedPolicy.highlighted_clauses) :
            /\ DOMAIN uploadedPolicy.highlighted_clauses[j] = FixedFields
            /\ uploadedPolicy.highlighted_clauses[j].category \in Categories

\* The ids of the chunks the chunker made of document d.
OwnedChunkIds(d) == {ChunkId(d, i) : i \in 1..docs[d].nChunks}

\* Every citation of the answer names a chunk of document d, one that is in
\* d's collection unless d has failed or been deleted since the retrieval.
Grounded(answer, d) ==
    Len(answer.citations) > 0 =>
        /\ answer.question_type = "policy_specific"
        /\ d \in DocIds
        /\ \A j \in 1..Len(answer.citations) :
              /\ answer.citations[j].chunk_id \in OwnedChunkIds(d)
              /\ \/ answer.citations[j].chunk_id \in {c.id : c \in ChunksOf(index, d)}
                 \/ docs[d].status \in {"failed", "deleted"}

InFlight == {s \in Sessions : sessions[s].pc \in {"uploading", "received", "processing"}}

\* The files C11 says are refused: no 'pdf' in the MIME type, or more than
\* 50 MB.
MustRefuse(file) ==
    \/ \A i \in 1..(Len(file.type) - 2) : SubSeq(file.type, i, i + 2) # <<"p", "d", "f">>
    \/ file.size > 52428800

HandFile(file) == HandleDrop(file) \/ HandleFileInput(file)

\* C11: file validation: handing FileUpload a file whose MIME type does not
\* contain 'pdf' or whose size is above 50 MB starts no upload (no session, no
\* request to the service), sets an error message, does not invoke
\* onUploadComplete and leaves the uploading flag and the progress as they
\* are; a PDF of at most 50 MB, also of exactly 50 MB, starts an upload.
C11_InvalidFileRefused ==
    [][\A file \in Files :
          (UNCHANGED <<serviceVars, uploadedPolicy, ask>> /\ HandFile(file)) =>
             IF MustRefuse(file)
             THEN /\ sessions' = sessions
                  /\ serviceVars' = serviceVars
                  /\ uploadedPolicy' = uploadedPolicy
                  /\ fu'.uploading = fu.uploading
                  /\ fu'.progress = fu.progress
                  /\ fu'.error.set /\ fu'.error.message # ""
             ELSE /\ fu'.uploading /\ ~fu'.error.set
                  /\ \E s \in Sessions :
                        sessions[s].pc = "idle" /\ sessions'[s].pc = "uploading"]_vars

\* An upload is running and a file above the limit has been refused meanwhile.
C11_Witness ==
    /\ fu.uploading
    /\ fu.error = ErrorOf("Die Datei ist zu gross. Maximum: 50MB")
    /\ fu.progress.progress = 50
    /\ Cardinality(InFlight) = 1

\* C12 as claimed: a question the user has asked on the page has been sent to
\* the ask endpoint with the id of the policy held.
C12_AskedQuestionIsSent ==
    consoleLog # NoLog =>
        /\ ask.pc # "idle"
        /\ ask.req.policy_id = consoleLog.policy_id
        /\ ask.req.question = consoleLog.question

\* The call's request got an HTTP answer with a status in 200..299 / outside.
GotOk == call.got.kind = "response" /\ call.got.status \in 200..299
GotNotOk == call.got.kind = "response" /\ call.got.status \notin 200..299
\* The backend could not be reached, or answered that it is unavailable.
GotUnavailable ==
    \/ call.got.kind = "network_error"
    \/ call.got.kind = "response" /\ call.got.status = 503

\* C13: failures are surfaced, not retried: a call of an api method issues
\* exactly one HTTP request, however the request ends, and when the backend
\* cannot be reached or answers 503 the call ends by throwing to its caller.
C13_OneRequestAndSurfaced ==
    /\ call.pc # "idle" => call.requests = 1
    /\ call.pc = "settled" /\ GotUnavailable =>
          /\ call.outcome.kind = "throw"
          /\ call.outcome.name \in {"TypeError", "ApiError", "Error"}
          /\ call.got.kind = "response" => call.outcome.status = 503

C13_Witness ==
    /\ call.pc = "settled"
    /\ call.method = "getPolicyOverview"
    /\ call.got.kind = "network_error"
    /\ call.outcome.kind = "throw"
    /\ call.requests = 1

NonEmptyString(value) == value.t = "string" /\ value.v # ""

\* The message C17 states for a non-OK answer, "present" read as present and
\* not empty.
ClaimedMessage(r) ==
    IF r.json
    THEN IF r.body # JsNull /\ NonEmptyString(r.body.detail) THEN r.body.detail.v
         ELSE IF r.body # JsNull /\ NonEmptyString(r.body.error) THEN r.body.error.v
         ELSE "HTTP " \o ToString(r.status)
    ELSE IF r.statusText # "" THEN r.statusText ELSE "HTTP " \o ToString(r.status)

\* C17 as claimed: for a non-OK answer fetchApi throws an ApiError with the
\* answer's status; its message is the body's detail, else the body's error,
\* else 'HTTP <status>', and the statusText (or 'HTTP <status>') only when the
\* body cannot be parsed as JSON.
C17_ErrorMessageAsClaimed ==
    (call.pc = "settled" /\ call.method \in FetchMethods /\ GotNotOk) =>
        call.outcome = Thrown("ApiError", call.got.status, ClaimedMessage(call.got))

\* C18: uploadPolicy's promise settles at most once, by the XHR event: load
\* with a status in 200..299 resolves with the parsed body, or rejects with
\* Error('Failed to parse response') when the body is not JSON; load with
\* another status rejects with an ApiError of that status; an error event
\* rejects with Error('Network error').  onProgress is called once for each
\* progress event with lengthComputable and for no other.
C18_UploadOutcome ==
    call.method = "uploadPolicy" =>
        /\ call.settlements <= 1
        /\ call.pc = "settled" <=> call.settlements = 1
        /\ call.progressCalls = IF call.onProgress THEN call.computable ELSE 0
        /\ call.pc = "settled" =>
              CASE call.got.kind = "network_error" ->
                      call.outcome = Thrown("Error", 0, "Network error")
                [] GotOk /\ call.got.json ->
                      call.outcome = Returned(call.got.body)
                [] GotOk /\ ~call.got.json ->
                      call.outcome = Thrown("Error", 0, "Failed to parse response")
                [] OTHER ->
                      /\ call.outcome.kind = "throw"
                      /\ call.outcome.name = "ApiError"
                      /\ call.outcome.status = call.got.status

C18_Witness ==
    /\ call.method = "uploadPolicy"
    /\ call.pc = "settled"
    /\ GotOk /\ ~call.got.json
    /\ call.outcome.message = "Failed to parse response"
    /\ call.progressCalls = 1
    /\ call.otherProgress = 1

\* C19 as claimed: deletePolicy resolves whenever the DELETE request is
\* answered with a 2xx status, and rejects only for a non-OK status or a
\* request that failed.
C19_DeleteResolvesOnSuccess ==
    (call.pc = "settled" /\ call.method = "deletePolicy") =>
        (call.outcome.kind = "return" <=> GotOk)

\* C14: delete cascades: no chunk of a deleted document is in the vector
\* index, whether the delete found it indexed, failed or still being indexed;
\* the ingestion of a deleted document takes no further step, so none of its
\* chunks is written afterwards.
C14_DeleteCascades ==
    \A d \in DocIds :
        docs[d].status = "deleted" =>
            /\ ChunksOf(index, d) = {}
            /\ Len(Collection(index, d)) = 0
            /\ ~ENABLED EmbedBatchOk(d)
            /\ ~ENABLED MarkIndexed(d)
            /\ ~ENABLED GenerateHighlights(d)

\* A document deleted in the middle of its indexing, and another document's
\* chunks still in the index.
C14_Witness ==
    \E d \in DocIds :
        /\ docs[d].status = "deleted"
        /\ docs[d].released > 0
        /\ docs[d].released < docs[d].nChunks
        /\ Len(index) > 0

StageRank(stage) ==
    CASE stage = "uploading" -> 1
      [] stage = "processing" -> 2
      [] stage = "complete" -> 3

\* C15 as claimed: while an upload whose request succeeds is under way in the
\* mounted FileUpload, the progress stage never goes backwards; once the
\* request has succeeded the stage is 'processing'; and the step that invokes
\* onUploadComplete with the response leaves stage 'complete' and progress 100.
C15_StagesInOrder ==
    [][\A s \in Sessions :
          (sessions[s].alive /\ s \in InFlight) =>
             /\ (sessions'[s].pc \in {"uploading", "received", "processing"}
                    \/ sessions[s].pc = "processing")
                   => StageRank(fu'.progress.stage) >= StageRank(fu.progress.stage)
             /\ sessions'[s].pc = "processing" => fu'.progress.stage = "processing"
             /\ (sessions[s].pc = "processing" /\ sessions'[s].pc = "done") =>
                   /\ fu'.progress.stage = "complete"
                   /\ fu'.progress.progress = 100
                   /\ uploadedPolicy'.policy_id = sessions[s].result.policy_id]_vars

\* C16: upload failure handling: the step in which the upload request of a
\* session fails (error event, non-2xx answer, 2xx answer that is not JSON)
\* does not invoke onUploadComplete, sends no further request and starts no
\* other session, and leaves the mounted FileUpload with an error set,
\* progress back at stage 'uploading' with 0, and uploading = false; a
\* session that has ended never runs again.
C16_FailureHandled ==
    [][\A s \in Sessions :
          /\ (sessions[s].pc \in {"uploading", "received"} /\ sessions'[s].pc = "done") =>
                /\ uploadedPolicy' = uploadedPolicy
                /\ serviceVars' = serviceVars
                /\ \A r \in Sessions \ {s} : sessions'[r] = sessions[r]
                /\ sessions[s].alive =>
                      /\ fu'.error.set
                      /\ fu'.progress.stage = "uploading"
                      /\ fu'.progress.progress = 0
                      /\ ~fu'.uploading
          /\ sessions[s].pc = "done" => sessions'[s].pc = "done"]_vars

\* The upload got a 2xx answer that is not JSON and has ended in the catch block.
C16_Witness ==
    /\ fu.error = ErrorOf("Failed to parse response")
    /\ ~fu.uploading
    /\ fu.progress = ReadyProgress
    /\ uploadedPolicy = NoPolicy
    /\ \E s \in Sessions : sessions[s].pc = "done"

\* C20 as claimed: at most one upload is in progress at any time, and
\* uploading is true exactly when one is.
C20_SingleUploadInFlight ==
    /\ Cardinality(InFlight) <= 1
    /\ (\E s \in InFlight : sessions[s].alive) <=> fu.uploading

\* C21 as claimed: however the XHR of an upload has ended (load, error, abort,
\* timeout), the promise of uploadPolicy has settled, so that handleFile goes
\* on to its finally block and uploading = false.
C21_EndedUploadHasSettled ==
    (call.method = "uploadPolicy" /\ call.xhr = "done") => call.pc = "settled"

\* C22 as claimed: while a single upload is under way (and when it completes)
\* the percentage in FileUpload's progress state never decreases from one
\* update to the next.
C22_ProgressMonotone ==
    [][\A s \in Sessions :
          (/\ InFlight = {s}
           /\ sessions[s].alive
           /\ \A r \in Sessions \ {s} : sessions'[r] = sessions[r]
           /\ \/ sessions'[s].pc \in {"uploading", "received", "processing"}
              \/ sessions[s].pc = "processing")
             => fu'.progress.progress >= fu.progress.progress]_vars

\* The policy p is the one handleUploadComplete builds from the response
\* result: one clause per highlight, in the response's order, with pairwise
\* distinct clause ids.
BuiltFrom(p, result) ==
    /\ p.policy_id = result.policy_id
    /\ p.filename = result.filename
    /\ p.total_chunks = result.total_chunks
    /\ Len(p.highlighted_clauses) = Len(result.highlights)
    /\ \A j \in 1..Len(result.highlights) :
          /\ p.highlighted_clauses[j].title = result.highlights[j].f["title"].v
          /\ p.highlighted_clauses[j].text = result.highlights[j].f["text"].v
          /\ p.highlighted_clauses[j].category = result.highlights[j].f["category"].v
    /\ \A i, j \in 1..Len(p.highlighted_clauses) :
          i # j => p.highlighted_clauses[i].clause_id # p.highlighted_clauses[j].clause_id

\* C23: one policy at a time: the page holds no policy or one; the step in
\* which an upload completes replaces whatever was held by the policy built
\* from that upload's response (one clause per highlight, same order, distinct
\* clause ids); the held policy changes in no other way than that and
\* handleStartOver, which sets it to none; Home shows PolicyTabs exactly when
\* a policy is held and FileUpload exactly when none is.
C23_OnePolicyAtATime ==
    [][/\ \A s \in Sessions :
            (sessions[s].pc = "processing" /\ sessions'[s].pc = "done") =>
                BuiltFrom(uploadedPolicy', sessions[s].result)
       /\ uploadedPolicy' # uploadedPolicy =>
            \/ uploadedPolicy # NoPolicy /\ uploadedPolicy' = NoPolicy
            \/ \E s \in Sessions :
                  sessions[s].pc = "processing" /\ sessions'[s].pc = "done"
       /\ HandleStartOver => uploadedPolicy' = NoPolicy
       /\ uploadedPolicy' # NoPolicy =>
            /\ uploadedPolicy'.policy_id \in DocIds
            /\ HomeView(uploadedPolicy') = "PolicyTabs"
       /\ uploadedPolicy' = NoPolicy => HomeView(uploadedPolicy') = "FileUpload"]_vars

\* A policy with two clauses is held, and an upload of another policy had
\* completed as well.
C23_Witness ==
    /\ uploadedPolicy # NoPolicy
    /\ Len(uploadedPolicy.highlighted_clauses) = 2
    /\ uploadedPolicy.highlighted_clauses[1].clause_id
          # uploadedPolicy.highlighted_clauses[2].clause_id
    /\ \E s \in Sessions :
          /\ sessions[s].pc = "done"
          /\ sessions[s].result # NoPolicy
          /\ sessions[s].result.policy_id # uploadedPolicy.policy_id

====
